---- MODULE Spec2Model ----
(***************************************************************************)
(* Model of GoogleDriveUploadBot (src/main.py): discovery of local files,  *)
(* resolution of the destination folder, the per-file upload-or-skip step, *)
(* the pacing rule of upload_with_breaks and its summary.                  *)
(*                                                                         *)
(* The remote store is the external collaborator: every call to it either  *)
(* returns or raises, and a KeyboardInterrupt may arrive while the loop    *)
(* runs.  Names are sequences of characters so that Path.suffix and        *)
(* str.lower are computed, not assumed.                                    *)
(***************************************************************************)
EXTENDS Integers, Sequences, FiniteSets, TLC

\* ------------------------------------------------------------------ bounds
\* Entries (files and directories) under the local folder.
MaxEntries == 3
\* Calls to upload_with_breaks in one behaviour.
MaxRuns == 2
\* Remote calls that raise in one behaviour.
MaxFaults == 1
\* KeyboardInterrupts in one behaviour.
MaxInterrupts == 1
\* Folders named DRIVE_FOLDER_NAME that exist before the first run.
MaxInitFolders == 1
\* A batch size small enough for a batch to complete within MaxEntries files.
SmallBatch == 2

\* ------------------------------------------------------- program constants
\* self.batch_size = 10
DefaultBatchSize == 10

\* Identifiers of the remote store are numbers: 'root' is the remote root,
\* NoneId is Python's None where an identifier is expected, and NoName is
\* None where a folder name is expected.
root == 0
NoneId == -1
NoName == "None"
\* DRIVE_FOLDER_NAME = "uploads"
DRIVE_FOLDER_NAME == "uploads"

\* file_extensions=None
NoExtensions == [given |-> FALSE, list |-> <<>>]

Range(s) == {s[k] : k \in 1..Len(s)}

\* ------------------------------------------------------------ local files
\* The names found under the local folder: a.T, b.p and a directory d.t.
Entries ==
  { [name |-> <<"a", ".", "T">>, is_file |-> TRUE],
    [name |-> <<"b", ".", "p">>, is_file |-> TRUE],
    [name |-> <<"d", ".", "t">>, is_file |-> FALSE] }

\* The same entry twice in a tree is the same base name in two directories.
Trees == UNION { [1..n -> Entries] : n \in 0..MaxEntries }

LocalFolders ==
  { [exists |-> TRUE, entries |-> t] : t \in Trees }
    \cup { [exists |-> FALSE, entries |-> <<>>] }

ExtensionLists ==
  { NoExtensions,
    [given |-> TRUE, list |-> << <<".", "t">> >>],
    [given |-> TRUE, list |-> << <<".", "T">> >>] }

\* PurePath.suffix: the name from its last dot on, unless that dot is the
\* first or the last character.
Suffix(name) ==
  LET dots == {k \in 1..Len(name) : name[k] = "."}
  IN  IF dots = {} THEN <<>>
      ELSE LET d == CHOOSE k \in dots : \A m \in dots : m <= k
           IN  IF d > 1 /\ d < Len(name) THEN SubSeq(name, d, Len(name)) ELSE <<>>

LowerChar(c) ==
  CASE c = "A" -> "a"
    [] c = "B" -> "b"
    [] c = "D" -> "d"
    [] c = "P" -> "p"
    [] c = "T" -> "t"
    [] OTHER -> c

\* str.lower
Lower(s) == [k \in 1..Len(s) |-> LowerChar(s[k])]

\* The test of line 71 on one entry.
KeepsFile(entry, file_extensions) ==
  /\ entry.is_file
  /\ \/ ~file_extensions.given
     \/ Lower(Suffix(entry.name)) \in Range(file_extensions.list)

RECURSIVE Discovered(_, _, _)
Discovered(entries, file_extensions, k) ==
  IF k > Len(entries) THEN <<>>
  ELSE (IF KeepsFile(entries[k], file_extensions) THEN <<k>> ELSE <<>>)
         \o Discovered(entries, file_extensions, k + 1)

\* get_files_to_upload: the kept paths, as positions in the tree, in the
\* traversal's order.  A missing folder raises (handled by the caller).
get_files_to_upload(local_folder, file_extensions) ==
  Discovered(local_folder.entries, file_extensions, 1)

\* ----------------------------------------------------------- remote store
\* The identifier the remote gives a new folder: one no folder has yet.
FreshFolderId(fs) ==
  1 + Cardinality(fs)

\* create_drive_folder without the check of lines 85-87: it always creates.
create_drive_folder_AlwaysCreates(folder_name, fs, may_raise) ==
  { [id |-> FreshFolderId(fs),
     folders |-> fs \cup {[id |-> FreshFolderId(fs), name |-> folder_name]},
     calls |-> <<"list", "create">>, raised |-> FALSE] }
    \cup (IF may_raise
          THEN { [id |-> NoneId, folders |-> fs, calls |-> <<"list">>, raised |-> TRUE] }
          ELSE {})

\* create_drive_folder: the outcomes of one call.  The listing's order is the
\* remote's, so folders[0] is any of the matches.
create_drive_folder(folder_name, fs, may_raise) ==
  LET matches == {f \in fs : f.name = folder_name}
      listed  ==
        IF matches # {}
        THEN { [id |-> f.id, folders |-> fs, calls |-> <<"list">>, raised |-> FALSE]
                 : f \in matches }
        ELSE { [id |-> FreshFolderId(fs),
                folders |-> fs \cup {[id |-> FreshFolderId(fs), name |-> folder_name]},
                calls |-> <<"list", "create">>, raised |-> FALSE] }
      failed  ==
        IF ~may_raise THEN {}
        ELSE { [id |-> NoneId, folders |-> fs, calls |-> <<"list">>, raised |-> TRUE] }
               \cup (IF matches = {}
                     THEN { [id |-> NoneId, folders |-> fs,
                             calls |-> <<"list", "create">>, raised |-> TRUE] }
                     ELSE {})
  IN  listed \cup failed

\* upload_file returning False at line 158 for a file that is already there.
upload_file_SkipFails(file_name, drive_folder_id, rfiles, may_raise) ==
  LET key == [parent |-> drive_folder_id, name |-> file_name]
  IN  IF key \in rfiles
      THEN { [result |-> FALSE, lookup |-> "found", create_called |-> FALSE,
              files |-> rfiles, raised |-> FALSE, propagated |-> FALSE] }
      ELSE { [result |-> TRUE, lookup |-> "absent", create_called |-> TRUE,
              files |-> rfiles \cup {key}, raised |-> FALSE, propagated |-> FALSE] }

\* upload_file without the lookup of lines 152-158: it always uploads.
upload_file_NoLookup(file_name, drive_folder_id, rfiles, may_raise) ==
  LET key == [parent |-> drive_folder_id, name |-> file_name]
  IN  { [result |-> TRUE, lookup |-> "absent", create_called |-> TRUE,
         files |-> rfiles \cup {key}, raised |-> FALSE, propagated |-> FALSE] }

\* upload_file without the handler of lines 183-185: the exception leaves it.
upload_file_Propagates(file_name, drive_folder_id, rfiles, may_raise) ==
  LET key == [parent |-> drive_folder_id, name |-> file_name]
      ok  ==
        IF key \in rfiles
        THEN { [result |-> TRUE, lookup |-> "found", create_called |-> FALSE,
                files |-> rfiles, raised |-> FALSE, propagated |-> FALSE] }
        ELSE { [result |-> TRUE, lookup |-> "absent", create_called |-> TRUE,
                files |-> rfiles \cup {key}, raised |-> FALSE, propagated |-> FALSE] }
      bad ==
        IF ~may_raise THEN {}
        ELSE { [result |-> FALSE, lookup |-> "raised", create_called |-> FALSE,
                files |-> rfiles, raised |-> TRUE, propagated |-> TRUE] }
  IN  ok \cup bad

\* upload_file: the outcomes of one call for a base name under a parent.
\* lookup is what the existence query did, create_called says a create call
\* was issued, raised says a call raised (caught at line 183), propagated
\* says an exception left the function.
upload_file(file_name, drive_folder_id, rfiles, may_raise) ==
  LET key == [parent |-> drive_folder_id, name |-> file_name]
      ok  ==
        IF key \in rfiles
        THEN { [result |-> TRUE, lookup |-> "found", create_called |-> FALSE,
                files |-> rfiles, raised |-> FALSE, propagated |-> FALSE] }
        ELSE { [result |-> TRUE, lookup |-> "absent", create_called |-> TRUE,
                files |-> rfiles \cup {key}, raised |-> FALSE, propagated |-> FALSE] }
      bad ==
        IF ~may_raise THEN {}
        ELSE { [result |-> FALSE, lookup |-> "raised", create_called |-> FALSE,
                files |-> rfiles, raised |-> TRUE, propagated |-> FALSE] }
               \cup (IF key \in rfiles THEN {}
                     ELSE { [result |-> FALSE, lookup |-> "absent", create_called |-> TRUE,
                             files |-> rfiles, raised |-> TRUE, propagated |-> FALSE] })
  IN  ok \cup bad

\* ------------------------------------------------------ upload_with_breaks
\* Lines 198-203: the folder the files go to.  An identifier is used as
\* given; otherwise a name is resolved by create_drive_folder; otherwise the
\* remote root.
ResolveTarget(folder_id, folder_name, fs, may_raise) ==
  IF folder_id # NoneId
  THEN { [id |-> folder_id, folders |-> fs, calls |-> <<>>, raised |-> FALSE] }
  ELSE IF folder_name # NoName
       THEN create_drive_folder(folder_name, fs, may_raise)
       ELSE { [id |-> root, folders |-> fs, calls |-> <<>>, raised |-> FALSE] }

\* Line 204 without its test: the run goes on with no target folder.
HasTarget_Any(folder_id) == TRUE

\* Line 204: the run goes on only with a target folder.
HasTarget(folder_id) == folder_id # NoneId

\* Lines 217-221 without the else branch: a failure is not counted.
Tally_FailedUncounted(successful, failed, result) ==
  IF result
  THEN [successful |-> successful + 1, failed |-> failed]
  ELSE [successful |-> successful, failed |-> failed]

\* Lines 217-221: the two counters after one file.
Tally(successful, failed, result) ==
  IF result
  THEN [successful |-> successful + 1, failed |-> failed]
  ELSE [successful |-> successful, failed |-> failed + 1]

\* Line 219: the bot's own counter after one file.
CountUploaded(count, result) == IF result THEN count + 1 ELSE count

\* Line 224 without `i < total_files - 1`: it sleeps after the last file too.
TakeBreak_AfterLast(count, size, idx, total) ==
  count % size = 0

\* Line 224: whether to sleep after the file at index idx (from 0).
TakeBreak(count, size, idx, total) ==
  count % size = 0 /\ idx < total - 1

VARIABLES
  local_folder,       \* LOCAL_FOLDER: whether it exists, and its entries
  file_extensions,    \* the allow-list, or none
  drive_folder_name,  \* DRIVE_FOLDER_NAME or NoName
  drive_folder_id,    \* DRIVE_FOLDER_ID or NoneId
  batch_size,         \* self.batch_size
  uploaded_count,     \* self.uploaded_count
  folders,            \* remote folders under the root: [id, name]
  remote_files,       \* remote files: [parent, name]
  pc,                 \* where upload_with_breaks is
  run,                \* which call of upload_with_breaks this is
  files_to_upload,    \* positions in local_folder.entries
  target_folder_id,
  total_files,
  i,                  \* index (from 0) of the next file of the loop
  successful_uploads,
  failed_uploads,
  summary,            \* what lines 236-242 logged
  attempts,           \* the calls of upload_file of this run, in order
  folder_calls,       \* the remote calls of create_drive_folder of this run
  slept,              \* the calls of time.sleep of this run that returned
  start_files,        \* remote_files when this run began
  start_folders,      \* folders when this run began
  prev,               \* how the previous run ended, and the names it counted
                      \* as successes
  faults,             \* remote calls that raised so far
  interrupts          \* KeyboardInterrupts so far

config == <<local_folder, file_extensions, drive_folder_name, drive_folder_id, batch_size>>
locals == <<files_to_upload, target_folder_id, total_files, i,
            successful_uploads, failed_uploads>>
vars == <<local_folder, file_extensions, drive_folder_name, drive_folder_id,
          batch_size, uploaded_count, folders, remote_files, pc, run,
          files_to_upload, target_folder_id, total_files, i, successful_uploads,
          failed_uploads, summary, attempts, folder_calls, slept,
          start_files, start_folders, prev, faults, interrupts>>

NoSummary == [emitted |-> FALSE, total |-> 0, successful |-> 0, failed |-> 0]
NoPrev == [pc |-> "none", target |-> NoneId, succeeded |-> {}, failed |-> 0]

\* main's configuration: a folder name, a folder identifier, or neither.
Destinations ==
  { [id |-> NoneId, name |-> DRIVE_FOLDER_NAME],
    [id |-> 1, name |-> NoName],
    [id |-> NoneId, name |-> NoName] }

InitFolders ==
  { {[id |-> k, name |-> DRIVE_FOLDER_NAME] : k \in 1..n} : n \in 0..MaxInitFolders }

\* The bot after __init__, before the first call of upload_with_breaks.
\* batch_size is the value __init__ sets, or a smaller one set on the bot,
\* with which a batch completes within MaxEntries files.
Init ==
  /\ local_folder \in LocalFolders
  /\ file_extensions \in ExtensionLists
  /\ \E d \in Destinations :
       /\ drive_folder_id = d.id
       /\ drive_folder_name = d.name
       \* folders are looked at only when a name is resolved
       /\ folders \in IF d.id = NoneId /\ d.name # NoName THEN InitFolders ELSE {{}}
  /\ batch_size \in {SmallBatch, DefaultBatchSize}
  /\ uploaded_count = 0
  /\ remote_files = {}
  /\ pc = "idle"
  /\ run = 1
  /\ files_to_upload = <<>>
  /\ target_folder_id = NoneId
  /\ total_files = 0
  /\ i = 0
  /\ successful_uploads = 0
  /\ failed_uploads = 0
  /\ summary = NoSummary
  /\ attempts = <<>>
  /\ folder_calls = <<>>
  /\ slept = 0
  /\ start_files = {}
  /\ start_folders = folders
  /\ prev = NoPrev
  /\ faults = 0
  /\ interrupts = 0

\* Lines 189-213: discovery, destination, counters.  A missing local folder
\* raises FileNotFoundError, caught at line 246.
Begin ==
  /\ pc = "idle"
  /\ start_files' = remote_files
  /\ start_folders' = folders
  /\ UNCHANGED <<config, uploaded_count, remote_files, run, summary, attempts, slept,
                 prev, interrupts, total_files, i, successful_uploads,
                 failed_uploads>>
  /\ IF ~local_folder.exists
     THEN /\ pc' = "error"
          /\ UNCHANGED <<folders, files_to_upload, target_folder_id, folder_calls, faults>>
     ELSE LET found == get_files_to_upload(local_folder, file_extensions)
          IN  IF found = <<>>
              THEN /\ pc' = "no_files"
                   /\ UNCHANGED <<folders, files_to_upload, target_folder_id,
                                  folder_calls, faults>>
              ELSE \E o \in ResolveTarget(drive_folder_id, drive_folder_name,
                                          folders, faults < MaxFaults) :
                     /\ files_to_upload' = found
                     /\ folders' = o.folders
                     /\ folder_calls' = o.calls
                     /\ faults' = IF o.raised THEN faults + 1 ELSE faults
                     /\ target_folder_id' = o.id
                     /\ pc' = IF HasTarget(o.id) THEN "start" ELSE "no_folder"

\* Lines 208-213.
StartLoop ==
  /\ pc = "start"
  /\ total_files' = Len(files_to_upload)
  /\ successful_uploads' = 0
  /\ failed_uploads' = 0
  /\ i' = 0
  /\ pc' = "loop"
  /\ UNCHANGED <<config, uploaded_count, folders, remote_files, run,
                 files_to_upload, target_folder_id, summary, attempts, slept,
                 folder_calls, start_files, start_folders, prev, faults,
                 interrupts>>

FileName(k) == local_folder.entries[files_to_upload[k + 1]].name

\* Lines 215-227: one pass of the loop.
Iterate ==
  /\ pc = "loop"
  /\ i < total_files
  /\ \E o \in upload_file(FileName(i), target_folder_id, remote_files,
                          faults < MaxFaults) :
       LET tally == Tally(successful_uploads, failed_uploads, o.result)
           count == CountUploaded(uploaded_count, o.result)
           pause == TakeBreak(count, batch_size, i, total_files)
       IN  /\ remote_files' = o.files
           /\ faults' = IF o.raised THEN faults + 1 ELSE faults
           /\ attempts' = Append(attempts,
                [index |-> files_to_upload[i + 1], name |-> FileName(i),
                 parent |-> target_folder_id,
                 existed |-> [parent |-> target_folder_id, name |-> FileName(i)]
                               \in remote_files,
                 lookup |-> o.lookup, create_called |-> o.create_called,
                 stored |-> o.files # remote_files, result |-> o.result,
                 count |-> IF o.propagated THEN uploaded_count ELSE count,
                 successful |-> IF o.propagated THEN successful_uploads
                                ELSE tally.successful,
                 failed |-> IF o.propagated THEN failed_uploads ELSE tally.failed,
                 paused |-> pause /\ ~o.propagated])
           /\ IF o.propagated
              THEN /\ pc' = "error"
                   /\ UNCHANGED <<successful_uploads, failed_uploads, uploaded_count, i>>
              ELSE /\ successful_uploads' = tally.successful
                   /\ failed_uploads' = tally.failed
                   /\ uploaded_count' = count
                   /\ i' = i + 1
                   /\ pc' = IF pause THEN "sleep" ELSE "loop"
  /\ UNCHANGED <<config, folders, run, files_to_upload, target_folder_id,
                 total_files, summary, folder_calls, slept, start_files, start_folders,
                 prev, interrupts>>

\* Lines 226-227: time.sleep returns.
Resume ==
  /\ pc = "sleep"
  /\ pc' = "loop"
  /\ slept' = slept + 1
  /\ UNCHANGED <<config, uploaded_count, folders, remote_files, run, locals,
                 summary, attempts, folder_calls, start_files, start_folders, prev,
                 faults, interrupts>>

\* Lines 229-242: the loop is over; the summary is logged.
Summary ==
  /\ pc = "loop"
  /\ i = total_files
  /\ summary' = [emitted |-> TRUE, total |-> total_files,
                 successful |-> successful_uploads, failed |-> failed_uploads]
  /\ pc' = "done"
  /\ UNCHANGED <<config, uploaded_count, folders, remote_files, run, locals, slept,
                 attempts, folder_calls, start_files, start_folders, prev, faults,
                 interrupts>>

\* Lines 244-245: a KeyboardInterrupt while a file is being uploaded or
\* during the sleep.  `except Exception` (line 183) does not catch it; the
\* create call of the file in hand may or may not have completed.
Interrupt ==
  /\ interrupts < MaxInterrupts
  /\ \/ pc = "sleep" /\ UNCHANGED remote_files
     \/ /\ pc = "loop"
        /\ i < total_files
        /\ LET key == [parent |-> target_folder_id, name |-> FileName(i)]
           IN  \E completed \in BOOLEAN :
                 /\ completed => key \notin remote_files
                 /\ remote_files' = IF completed THEN remote_files \cup {key}
                                    ELSE remote_files
  /\ interrupts' = interrupts + 1
  /\ pc' = "interrupted"
  /\ UNCHANGED <<config, uploaded_count, folders, run, locals, summary, attempts,
                 slept, folder_calls, start_files, start_folders, prev, faults>>

\* The attempts of this run that upload_with_breaks counted as successes.
Succeeded == {k \in 1..Len(attempts) : attempts[k].result}

Ended == pc \in {"done", "interrupted", "error", "no_files", "no_folder"}

\* Lines 265 and 289: the program is run again: main makes a new bot, whose
\* uploaded_count is 0, and calls upload_with_breaks with the same
\* configuration.
NextRun ==
  /\ Ended
  /\ run < MaxRuns
  /\ run' = run + 1
  /\ prev' = [pc |-> pc, target |-> target_folder_id,
               succeeded |-> {attempts[k].name : k \in Succeeded},
               failed |-> failed_uploads]
  /\ uploaded_count' = 0
  /\ pc' = "idle"
  /\ files_to_upload' = <<>>
  /\ target_folder_id' = NoneId
  /\ total_files' = 0
  /\ i' = 0
  /\ successful_uploads' = 0
  /\ failed_uploads' = 0
  /\ summary' = NoSummary
  /\ attempts' = <<>>
  /\ folder_calls' = <<>>
  /\ slept' = 0
  /\ start_files' = remote_files
  /\ start_folders' = folders
  /\ UNCHANGED <<config, folders, remote_files, faults, interrupts>>

Next ==
  \/ Begin
  \/ StartLoop
  \/ Iterate
  \/ Resume
  \/ Summary
  \/ Interrupt
  \/ NextRun

Spec == Init /\ [][Next]_vars

TypeOK ==
  /\ pc \in {"idle", "start", "loop", "sleep", "done", "interrupted", "error",
             "no_files", "no_folder"}
  /\ i \in 0..total_files
  /\ uploaded_count \in Nat

\* ----------------------------------------------------------------- claims
Last == attempts[Len(attempts)]
NameMode == drive_folder_id = NoneId /\ drive_folder_name # NoName
InLoop == pc \in {"loop", "sleep", "done", "interrupted"}
Failed == {k \in 1..Len(attempts) : ~attempts[k].result}
Paused == {k \in 1..Len(attempts) : attempts[k].paused}
\* The local counters before the k-th attempt.
SuccessfulBefore(k) == IF k = 1 THEN 0 ELSE attempts[k - 1].successful
FailedBefore(k) == IF k = 1 THEN 0 ELSE attempts[k - 1].failed

\* C1, as amended: when the lookup of upload_file returns a file of the same
\* base name directly under the destination folder, no create call is issued,
\* the remote store is left unchanged and upload_with_breaks counts a success;
\* and a name that is there is found whenever the lookup does not raise.
C1_SkipWhenFound ==
  \A k \in 1..Len(attempts) :
    /\ (attempts[k].existed /\ attempts[k].lookup # "raised")
         => attempts[k].lookup = "found"
    /\ attempts[k].lookup = "found"
         => /\ attempts[k].existed
            /\ ~attempts[k].create_called
            /\ ~attempts[k].stored
            /\ attempts[k].result
            /\ attempts[k].successful = SuccessfulBefore(k) + 1
            /\ attempts[k].failed = FailedBefore(k)

C1_Witness ==
  /\ Len(attempts) >= 2
  /\ Last.lookup = "found"
  /\ successful_uploads = Last.successful
  /\ Last.successful = SuccessfulBefore(Len(attempts)) + 1

\* C1, as first stated: whenever a file of the same base name is there at the
\* time of the lookup, no create call is issued, the store is unchanged and
\* the file is counted as a success.
C1_Original ==
  \A k \in 1..Len(attempts) :
    attempts[k].existed
      => /\ ~attempts[k].create_called
         /\ ~attempts[k].stored
         /\ attempts[k].successful = SuccessfulBefore(k) + 1

\* C2, as amended: in a second run against the same destination folder, no
\* create call is issued for a file whose name the first run counted as a
\* success; and when the first run ended with every file counted as a
\* success, the second run creates no remote file and every file whose lookup
\* does not raise is found by name and skipped.
C2_SecondRunSkips ==
  (run >= 2 /\ InLoop /\ prev.target = target_folder_id)
    => /\ \A k \in 1..Len(attempts) :
            attempts[k].name \in prev.succeeded
              => ~attempts[k].create_called /\ ~attempts[k].stored
       /\ (prev.pc = "done" /\ prev.failed = 0)
            => /\ remote_files = start_files
               /\ \A k \in 1..Len(attempts) :
                    /\ ~attempts[k].create_called
                    /\ attempts[k].lookup # "raised"
                         => attempts[k].lookup = "found" /\ attempts[k].result

C2_Witness ==
  /\ run = 2
  /\ pc = "done"
  /\ prev.pc = "done"
  /\ prev.failed = 0
  /\ prev.target = target_folder_id
  /\ Len(attempts) >= 2
  /\ \A k \in 1..Len(attempts) : attempts[k].lookup = "found"
  /\ remote_files = start_files

\* C2, as first stated: a second run after a first run that went through the
\* whole list, against the same destination folder, creates no remote file,
\* and every file of it is found by name and skipped (read for the files
\* whose lookup does not raise).
C2_Original ==
  (run >= 2 /\ InLoop /\ prev.pc = "done" /\ prev.target = target_folder_id)
    => /\ remote_files = start_files
       /\ \A k \in 1..Len(attempts) :
            /\ ~attempts[k].create_called
            /\ attempts[k].lookup # "raised" => attempts[k].lookup = "found"

\* C3: whenever a successful upload brings the counter to a multiple of the
\* batch size and a file remains, time.sleep is called before the next file's
\* attempt; and it is never called after the last file of the list.
C3_Pacing ==
  /\ \A k \in 1..Len(attempts) :
       /\ (attempts[k].result /\ attempts[k].count % batch_size = 0 /\ k < total_files)
            => attempts[k].paused
       /\ k = total_files => ~attempts[k].paused
  /\ pc = "sleep" => (Len(attempts) >= 1 /\ Last.paused)
  /\ slept >= Cardinality({k \in Paused : k < Len(attempts)})
  /\ slept <= Cardinality(Paused)

C3_Witness ==
  /\ Len(attempts) >= 3
  /\ attempts[2].result
  /\ attempts[2].count = batch_size
  /\ attempts[2].paused
  /\ ~attempts[1].paused

\* C4: a pause is taken after a file only if that file was counted as a
\* success and brought the counter to a positive multiple of the batch size,
\* so the pauses of a run number at most floor(successes / batch size)
\* (stated for the batch size the program sets).
C4_PausesOnlyOnSuccess ==
  batch_size = DefaultBatchSize
    => /\ \A k \in Paused :
            /\ attempts[k].result
            /\ attempts[k].count > 0
            /\ attempts[k].count % batch_size = 0
       /\ Cardinality(Paused) <= successful_uploads \div batch_size

\* C5: a failed file never ends the run: the files are attempted once each in
\* the order of discovery, a run that is not interrupted goes through the
\* whole list, and the failed count is the number of failed attempts.
C5_FailureIsolation ==
  /\ Len(attempts) <= Len(files_to_upload)
  /\ \A k \in 1..Len(attempts) : attempts[k].index = files_to_upload[k]
  /\ Len(attempts) >= 1 => InLoop
  /\ InLoop => failed_uploads = Cardinality(Failed)
  /\ (InLoop /\ pc # "interrupted") => i = Len(attempts)
  /\ pc = "done"
       => /\ Len(attempts) = Len(files_to_upload)
          /\ summary.failed = Cardinality(Failed)

C5_Witness ==
  /\ pc = "done"
  /\ Len(attempts) >= 3
  /\ ~attempts[1].result
  /\ attempts[2].result
  /\ attempts[3].result
  /\ summary.failed = 1
  /\ summary.successful = 2

\* The folders of the wanted name when the run began, and those made since.
MatchesAtStart == {f \in start_folders : f.name = drive_folder_name}
CreateCalls == {k \in 1..Len(folder_calls) : folder_calls[k] = "create"}

C7_SummaryOnInterrupt ==
  pc = "interrupted"
    => /\ summary.emitted
       /\ summary.successful = successful_uploads
       /\ summary.failed = failed_uploads

\* An entry whose extension equals an entry of the allow-list ignoring case.
MatchesIgnoringCase(entry, exts) ==
  /\ entry.is_file
  /\ \E e \in Range(exts.list) : Lower(Suffix(entry.name)) = Lower(e)

\* C8: with an allow-list, get_files_to_upload returns exactly the regular
\* files whose extension matches an entry ignoring case, and only returned
\* files are passed to upload_file.
C8_FilterIgnoresCase ==
  (file_extensions.given /\ pc \notin {"idle", "error"})
    => /\ Range(files_to_upload)
            = {k \in 1..Len(local_folder.entries) :
                 MatchesIgnoringCase(local_folder.entries[k], file_extensions)}
       /\ \A k \in 1..Len(attempts) : attempts[k].index \in Range(files_to_upload)

\* C9: a missing local folder ends the run with no remote call at all, and a
\* folder resolution that failed ends it with no find-file or upload call.
C9_SetupAborts ==
  /\ ~local_folder.exists
       => /\ pc \in {"idle", "error"}
          /\ attempts = <<>>
          /\ folder_calls = <<>>
          /\ folders = start_folders
          /\ remote_files = start_files
  /\ (pc # "idle" /\ target_folder_id = NoneId)
       => /\ pc \in {"error", "no_files", "no_folder"}
          /\ attempts = <<>>
          /\ remote_files = start_files

C9_Witness ==
  /\ pc = "no_folder"
  /\ folder_calls = <<"list", "create">>
  /\ target_folder_id = NoneId
  /\ files_to_upload # <<>>
  /\ attempts = <<>>

\* C10: after each pass of the loop the two counters add up to the number of
\* files processed, each file moves exactly one of them by exactly 1, and the
\* counts of the summary add up to the number of files discovered.
C10_Counters ==
  /\ InLoop => successful_uploads + failed_uploads = Len(attempts)
  /\ \A k \in 1..Len(attempts) :
       \/ /\ attempts[k].successful = SuccessfulBefore(k) + 1
          /\ attempts[k].failed = FailedBefore(k)
       \/ /\ attempts[k].successful = SuccessfulBefore(k)
          /\ attempts[k].failed = FailedBefore(k) + 1
  /\ (InLoop /\ Len(attempts) >= 1)
       => /\ successful_uploads = Last.successful
          /\ failed_uploads = Last.failed
  /\ summary.emitted
       => /\ summary.successful + summary.failed = summary.total
          /\ summary.total = Len(files_to_upload)
          /\ summary.total = Len(get_files_to_upload(local_folder, file_extensions))

C10_Witness ==
  /\ summary.emitted
  /\ summary.total = 3
  /\ summary.successful = 2
  /\ summary.failed = 1

====
